---- MODULE Spec2Model ----
(***************************************************************************)
(* State-machine model of the two plotting scripts of insolation-diagram:  *)
(*   src/plot_insolation.py           (script = "insolation")              *)
(*   src/115-250/plot_correlation.py  (script = "correlation")             *)
(* A run is one pass over an input table.  Numbers are exact:              *)
(*  - an Age cell counts multiples of SHIFT_KA = 0.05 ka (50 years), so    *)
(*    that the window bounds of both scripts fall on representable ages;   *)
(*  - obliquity after scaling is held in thousandths of a degree, so that  *)
(*    the division by 1000.0 is exact;                                     *)
(*  - OMEGA is one of 0, 90, 270 degrees, whose sines are exact doubles.   *)
(***************************************************************************)
EXTENDS Integers, Sequences, FiniteSets, TLC

VARIABLES script, file, pc, df, age_b2k, obl, prec_index, extrema,
          fig, files, error, chart, phases

vars == <<script, file, pc, df, age_b2k, obl, prec_index, extrema,
          fig, files, error, chart, phases>>

----------------------------------------------------------------------------
(* Bounds of the model *)

MaxProbeRows == 2

MaxSeriesLen == 5

----------------------------------------------------------------------------
(* Program constants *)

AGE_MIN_YR_B2K == 128000

AGE_MAX_YR_B2K == 220000

SHIFT_YEARS == 50

EXTREMA_ORDER == 3

AGE_MIN_B2K == 115

AGE_MAX_B2K == 250

YearsPerKa == 1000

ObliquityScale == 1000

ObliquityLimit == 100

\* The missing value pandas coerces unparsable cells to.
NaN == -1000000

\* A cell of the file that holds text which is not a number.
Text == -1000001

\* Age cells per ka: an Age cell a stands for a / TicksPerKa ka BP.
TicksPerKa == YearsPerKa \div SHIFT_YEARS

\* SHIFT_KA = SHIFT_YEARS / 1000.0 ka, in Age cells.
SHIFT_KA == (SHIFT_YEARS * TicksPerKa) \div YearsPerKa

col_age == "Age"

col_ecc == "ECC"

col_obl == "OBL"

col_omega == "OMEGA"

col_insol == "EXI"

needed == {col_age, col_ecc, col_obl, col_omega, col_insol}

\* The order in which both scripts convert the columns to numbers.
numeric_columns == <<col_age, col_ecc, col_obl, col_omega, col_insol>>

out_base == "insolation_vs_age_orbital_extrema"

Charts == <<"corr_insolation_vs_ecc", "corr_insolation_vs_obliquity",
            "corr_insolation_vs_precession_index">>

NoFig == [kind |-> "none"]

NoError == [kind |-> "none"]

NoExtrema == [ecc_max |-> {}, ecc_min |-> {}, obl_max |-> {}, obl_min |-> {},
              prec_max |-> {}, prec_min |-> {}]

----------------------------------------------------------------------------
(* Arithmetic and comparisons on cells; NaN propagates, compares false *)

to_numeric(v) == IF v = Text THEN NaN ELSE v

Greater(a, b) == a # NaN /\ b # NaN /\ a > b

Less(a, b) == a # NaN /\ b # NaN /\ a < b

GreaterEqual(a, b) == a # NaN /\ b # NaN /\ a >= b

LessEqual(a, b) == a # NaN /\ b # NaN /\ a <= b

Add(a, b) == IF a = NaN \/ b = NaN THEN NaN ELSE a + b

Mul(a, b) == IF a = NaN \/ b = NaN THEN NaN ELSE a * b

\* np.sin(np.deg2rad(w)) on the angles of the model.
Sin(w) == CASE w = 0 -> 0 [] w = 90 -> 1 [] w = 270 -> -1 [] OTHER -> NaN

Column(frame, c) == [i \in DOMAIN frame |-> frame[i][c]]

SeqRange(s) == {s[i] : i \in DOMAIN s}

\* Series.max(): missing values are skipped; NaN when nothing is left.
SeriesMax(s) ==
    LET nums == SeqRange(s) \ {NaN}
    IN  IF nums = {} THEN NaN
        ELSE CHOOSE m \in nums : \A x \in nums : x <= m

\* The orders sort_values(key) may leave the rows of frame in: every
\* arrangement with non-decreasing key (the sort is not stable).
RECURSIVE SortOrders(_, _, _)
SortOrders(frame, key, S) ==
    IF S = {} THEN {<<>>}
    ELSE UNION { { <<i>> \o t : t \in SortOrders(frame, key, S \ {i}) } :
                 i \in {j \in S : \A k \in S : frame[j][key] <= frame[k][key]} }

----------------------------------------------------------------------------
(* plot_insolation.py: conversion, window, extrema *)

\* df[col_age] * 1000.0 + SHIFT_YEARS
Age_yr_b2k(a) ==
    IF a = NaN THEN NaN ELSE (a * YearsPerKa) \div TicksPerKa + SHIFT_YEARS

\* df["Age_yr_b2k"] = df[col_age] * 1000.0 + SHIFT_YEARS, as a new column
Converted(frame) ==
    [i \in DOMAIN frame |->
        frame[i] @@ ("Age_yr_b2k" :> Age_yr_b2k(frame[i][col_age]))]

\* Mutant: the window taken open at both ends.
InsWindow_open(v) ==
    Greater(v, AGE_MIN_YR_B2K) /\ Less(v, AGE_MAX_YR_B2K)

InsWindow(v) ==
    GreaterEqual(v, AGE_MIN_YR_B2K) /\ LessEqual(v, AGE_MAX_YR_B2K)

\* Mutant: OMEGA left out of the columns dropna looks at.
dropna_subset_no_omega == {"Age_yr_b2k", col_insol, col_ecc, col_obl}

dropna_subset == {"Age_yr_b2k", col_insol, col_ecc, col_obl, col_omega}

dropna(frame) ==
    SelectSeq(frame, LAMBDA r : \A c \in dropna_subset : r[c] # NaN)

\* Mutant: only the Age column is looked for.
missing_age_only(columns) == {c \in {col_age} : c \notin columns}

missing(columns) == {c \in needed : c \notin columns}

\* np.take(..., mode="clip") on positions 0..n-1
Clip(i, n) == IF i < 0 THEN 0 ELSE IF i > n - 1 THEN n - 1 ELSE i

\* Mutant: the comparators np.greater_equal / np.less_equal.
Compare_or_equal(cmp, a, b) ==
    IF cmp = "greater" THEN GreaterEqual(a, b) ELSE LessEqual(a, b)

Compare(cmp, a, b) == IF cmp = "greater" THEN Greater(a, b) ELSE Less(a, b)

\* scipy.signal argrelextrema: the positions still standing after each shift
\* 1..order has been compared on both sides; the loop stops early once none is.
RECURSIVE BoolRelExtrema(_, _, _, _, _)
BoolRelExtrema(arr, cmp, order, shift, results) ==
    IF shift > order THEN results
    ELSE LET n == Len(arr)
             r == {i \in results :
                      /\ Compare(cmp, arr[i + 1], arr[Clip(i + shift, n) + 1])
                      /\ Compare(cmp, arr[i + 1], arr[Clip(i - shift, n) + 1])}
         IN  IF r = {} THEN r
             ELSE BoolRelExtrema(arr, cmp, order, shift + 1, r)

argrelextrema(arr, cmp, order) ==
    BoolRelExtrema(arr, cmp, order, 1, 0 .. Len(arr) - 1)

get_extrema_idx(series, order) ==
    [max |-> argrelextrema(series, "greater", order),
     min |-> argrelextrema(series, "less", order)]

\* Mutant: the decision to divide taken value by value.
ScaleObl_per_row(obl_raw) ==
    [i \in DOMAIN obl_raw |->
        IF Greater(obl_raw[i], ObliquityLimit) THEN obl_raw[i]
        ELSE Mul(obl_raw[i], ObliquityScale)]

\* obl_raw / 1000.0 if obl_raw.max() > 100 else obl_raw, in thousandths of
\* a degree: a divided value v / 1000 is v thousandths, an unchanged value
\* v is v * 1000 thousandths.
ScaleObl(obl_raw) ==
    IF Greater(SeriesMax(obl_raw), ObliquityLimit)
    THEN obl_raw
    ELSE [i \in DOMAIN obl_raw |-> Mul(obl_raw[i], ObliquityScale)]

PrecIndex(frame) ==
    [i \in DOMAIN frame |-> Mul(frame[i][col_ecc], Sin(frame[i][col_omega]))]

\* The positions of idx in ascending order, as np.nonzero returns them.
RECURSIVE Ascending(_)
Ascending(idx) ==
    IF idx = {} THEN <<>>
    ELSE LET m == CHOOSE x \in idx : \A y \in idx : x <= y
         IN  <<m>> \o Ascending(idx \ {m})

\* Mutant: series.loc[i], the row labelled i where there is one.
loc(frame, i) ==
    IF \E k \in DOMAIN frame : frame[k]["index"] = i
    THEN frame[CHOOSE k \in DOMAIN frame : frame[k]["index"] = i]
    ELSE frame[i + 1]

\* series.iloc[i]: the row at position i of the frame as it stands.
iloc(frame, i) == frame[i + 1]

\* ax.scatter(insol.iloc[idx], age.iloc[idx])
Markers(frame, idx) ==
    LET a == Ascending(idx)
    IN  [k \in DOMAIN a |->
            <<iloc(frame, a[k])[col_insol], iloc(frame, a[k])["Age_yr_b2k"]>>]

\* Mutant: the vector file written first.
ExportNames_svg_first(base) == <<<<base, "svg">>, <<base, "jpg">>>>

\* plt.savefig(jpg) then plt.savefig(svg); export_figure does the same
ExportNames(base) == <<<<base, "jpg">>, <<base, "svg">>>>

\* Appends a phase to the log of phases a run has entered.
Enter(log, phase) ==
    IF log # <<>> /\ log[Len(log)] = phase THEN log ELSE Append(log, phase)

----------------------------------------------------------------------------
(* plot_correlation.py: window in BP *)

\* Mutant: the shift applied to the window with the wrong sign.
age_min_bp_plus == AGE_MIN_B2K * TicksPerKa + SHIFT_KA

age_min_bp == AGE_MIN_B2K * TicksPerKa - SHIFT_KA

age_max_bp == AGE_MAX_B2K * TicksPerKa - SHIFT_KA

CorrWindow(a) == GreaterEqual(a, age_min_bp) /\ LessEqual(a, age_max_bp)

\* The first column of the loop that df[c] fails on, as a set (empty: none).
KeyErrorColumn(columns) ==
    LET bad == {k \in DOMAIN numeric_columns : numeric_columns[k] \notin columns}
    IN  IF bad = {} THEN {}
        ELSE {numeric_columns[CHOOSE k \in bad : \A j \in bad : k <= j]}

ToNumericFrame(frame) ==
    [i \in DOMAIN frame |->
        [c \in DOMAIN frame[i] |->
            IF c \in needed THEN to_numeric(frame[i][c]) ELSE frame[i][c]]]

----------------------------------------------------------------------------
(* Input files *)

BaseRow == [Age |-> 3000, ECC |-> 2, OBL |-> 23, OMEGA |-> 90, EXI |-> 450]

\* The Age cells at the four window bounds and just outside them.
InsLo == ((AGE_MIN_YR_B2K - SHIFT_YEARS) * TicksPerKa) \div YearsPerKa

InsHi == ((AGE_MAX_YR_B2K - SHIFT_YEARS) * TicksPerKa) \div YearsPerKa

AgeVals == {InsLo - 1, InsLo, InsHi, InsHi + 1,
            age_min_bp - 1, age_min_bp, age_max_bp, age_max_bp + 1}

ProbeRows ==
    {[BaseRow EXCEPT !.Age = a] : a \in AgeVals \cup {Text}}
    \cup {[BaseRow EXCEPT ![c] = Text] : c \in needed \ {col_age}}

ProbeTables == UNION {[1 .. n -> ProbeRows] : n \in 0 .. MaxProbeRows}

Headers == {needed} \cup {needed \ {c} : c \in needed}

Restrict(r, columns) == [c \in columns |-> r[c]]

ProbeFiles ==
    {[columns |-> h, rows |-> [i \in DOMAIN t |-> Restrict(t[i], h)]] :
        h \in Headers, t \in ProbeTables}

\* Series files: n rows one ka apart inside both windows, written oldest
\* first or youngest first, one orbital column free and the others fixed.
SeriesAge(i, n, dir) ==
    IF dir = "up" THEN 3000 + TicksPerKa * i ELSE 3000 + TicksPerKa * (n - i)

EccVals == {1, 2, 3}

OblVals == {23, 24, 22340}

OmegaVals == {0, 90, 270}

SeriesRow(i, n, dir, fam, v) ==
    [Age |-> SeriesAge(i, n, dir),
     ECC |-> IF fam = "ecc" THEN v ELSE 1 + (i % 2),
     OBL |-> IF fam = "obl" THEN v ELSE 22340 + 100 * ((i * i) % 3),
     OMEGA |-> IF fam = "omega" THEN v ELSE 90,
     EXI |-> 400 + 10 * i]

FamilyVals(fam) ==
    CASE fam = "ecc" -> EccVals [] fam = "obl" -> OblVals [] OTHER -> OmegaVals

SeriesFiles(fams) ==
    {[columns |-> needed,
      rows |-> [i \in 1 .. n |-> SeriesRow(i, n, dir, fam, f[i])]] :
        <<n, dir, fam, f>> \in
            UNION { UNION { {<<n, dir, fam, f>> :
                               f \in [1 .. n -> FamilyVals(fam)],
                               dir \in {"up", "down"}} :
                            fam \in fams } : n \in 3 .. MaxSeriesLen }}

----------------------------------------------------------------------------
(* Init and actions *)

Init ==
    /\ \/ /\ script = "insolation"
          /\ file \in ProbeFiles \cup SeriesFiles({"ecc", "obl", "omega"})
       \/ /\ script = "correlation"
          /\ file \in ProbeFiles \cup SeriesFiles({"obl"})
    /\ pc = "start"
    /\ df = <<>>
    /\ age_b2k = <<>>
    /\ obl = <<>>
    /\ prec_index = <<>>
    /\ extrema = NoExtrema
    /\ fig = NoFig
    /\ files = <<>>
    /\ error = NoError
    /\ chart = 0
    /\ phases = <<>>

\* robust_read_table: the rows of the file under the labels 0..n-1
Load ==
    /\ pc = "start"
    /\ df' = [i \in DOMAIN file.rows |-> file.rows[i] @@ ("index" :> i - 1)]
    /\ pc' = "loaded"
    /\ phases' = Enter(phases, "read")
    /\ UNCHANGED <<script, file, age_b2k, obl, prec_index, extrema, fig,
                   files, error, chart>>

\* plot_insolation.py: needed / missing / raise ValueError
InsCheckColumns ==
    /\ script = "insolation"
    /\ pc = "loaded"
    /\ IF missing(file.columns) # {}
       THEN /\ error' = [kind |-> "ValueError",
                         missing |-> missing(file.columns)]
            /\ pc' = "error"
       ELSE /\ pc' = "checked"
            /\ UNCHANGED error
    /\ phases' = Enter(phases, "read")
    /\ UNCHANGED <<script, file, df, age_b2k, obl, prec_index, extrema, fig,
                   files, chart>>

\* plot_insolation.py: for c in [...]: df[c] = pd.to_numeric(df[c], "coerce")
InsToNumeric ==
    /\ script = "insolation"
    /\ pc = "checked"
    /\ IF KeyErrorColumn(file.columns) # {}
       THEN /\ error' = [kind |-> "KeyError",
                         missing |-> KeyErrorColumn(file.columns)]
            /\ pc' = "error"
            /\ UNCHANGED df
       ELSE /\ df' = ToNumericFrame(df)
            /\ pc' = "numeric"
            /\ UNCHANGED error
    /\ phases' = Enter(phases, "transform")
    /\ UNCHANGED <<script, file, age_b2k, obl, prec_index, extrema, fig,
                   files, chart>>

\* plot_insolation.py lines 82-109: Age_yr_b2k, window, dropna, sort,
\* obliquity scaling, precession index, extrema of the three parameters
InsTransform ==
    /\ script = "insolation"
    /\ pc = "numeric"
    /\ \E kept \in {dropna(SelectSeq(Converted(df),
                                     LAMBDA r : InsWindow(r["Age_yr_b2k"])))} :
       \E o \in SortOrders(kept, "Age_yr_b2k", DOMAIN kept) :
       \E sorted \in {[k \in DOMAIN kept |-> kept[o[k]]]} :
       \E scaled \in {ScaleObl(Column(sorted, col_obl))} :
       \E prec \in {PrecIndex(sorted)} :
       \E e \in {get_extrema_idx(Column(sorted, col_ecc), EXTREMA_ORDER)} :
       \E b \in {get_extrema_idx(scaled, EXTREMA_ORDER)} :
       \E p \in {get_extrema_idx(prec, EXTREMA_ORDER)} :
          /\ df' = sorted
          /\ age_b2k' = Column(sorted, "Age_yr_b2k")
          /\ obl' = scaled
          /\ prec_index' = prec
          /\ extrema' = [ecc_max |-> e.max, ecc_min |-> e.min,
                         obl_max |-> b.max, obl_min |-> b.min,
                         prec_max |-> p.max, prec_min |-> p.min]
    /\ pc' = "transformed"
    /\ phases' = Enter(phases, "transform")
    /\ UNCHANGED <<script, file, fig, files, error, chart>>

\* plot_insolation.py lines 114-219: the line, the six marker sets, the y axis
InsPlot ==
    /\ script = "insolation"
    /\ pc = "transformed"
    /\ fig' = [kind |-> "insolation",
               line |-> [i \in DOMAIN df |-> <<df[i][col_insol], age_b2k[i]>>],
               markers |-> [k \in DOMAIN extrema |-> Markers(df, extrema[k])],
               ylim |-> <<AGE_MAX_YR_B2K, AGE_MIN_YR_B2K>>]
    /\ pc' = "plotted"
    /\ phases' = Enter(phases, "plot")
    /\ UNCHANGED <<script, file, df, age_b2k, obl, prec_index, extrema,
                   files, error, chart>>

\* plot_correlation.py main: the pd.to_numeric loop (KeyError on a column
\* the table lacks)
CorrToNumeric ==
    /\ script = "correlation"
    /\ pc = "loaded"
    /\ IF KeyErrorColumn(file.columns) # {}
       THEN /\ error' = [kind |-> "KeyError",
                         missing |-> KeyErrorColumn(file.columns)]
            /\ pc' = "error"
            /\ UNCHANGED df
       ELSE /\ df' = ToNumericFrame(df)
            /\ pc' = "numeric"
            /\ UNCHANGED error
    /\ phases' = Enter(phases, "transform")
    /\ UNCHANGED <<script, file, age_b2k, obl, prec_index, extrema, fig,
                   files, chart>>

\* plot_correlation.py main lines 104-123
CorrTransform ==
    /\ script = "correlation"
    /\ pc = "numeric"
    /\ \E sub \in {SelectSeq(df, LAMBDA r : CorrWindow(r[col_age]))} :
       \E o \in SortOrders(sub, col_age, DOMAIN sub) :
       \E sorted \in {[k \in DOMAIN sub |-> sub[o[k]]]} :
          /\ df' = sorted
          /\ age_b2k' = [k \in DOMAIN sorted |->
                            Add(sorted[k][col_age], SHIFT_KA)]
          /\ obl' = ScaleObl(Column(sorted, col_obl))
          /\ prec_index' = PrecIndex(sorted)
    /\ pc' = "transformed"
    /\ phases' = Enter(phases, "transform")
    /\ UNCHANGED <<script, file, extrema, fig, files, error, chart>>

\* plot_correlation.py scatter_plot up to the call of export_figure
CorrScatterPlot ==
    /\ script = "correlation"
    /\ pc \in {"transformed", "closed"}
    /\ chart < Len(Charts)
    /\ chart' = chart + 1
    /\ fig' = [kind |-> "scatter",
               out_base |-> Charts[chart + 1],
               x |-> CASE chart = 0 -> Column(df, col_ecc)
                       [] chart = 1 -> obl
                       [] OTHER -> prec_index,
               y |-> Column(df, col_insol),
               c |-> age_b2k,
               vmin |-> AGE_MIN_B2K * TicksPerKa,
               vmax |-> AGE_MAX_B2K * TicksPerKa]
    /\ pc' = "plotted"
    /\ phases' = Enter(phases, "plot")
    /\ UNCHANGED <<script, file, df, age_b2k, obl, prec_index, extrema,
                   files, error>>

FigBase == IF script = "insolation" THEN out_base ELSE fig.out_base

\* savefig(f"{out_base}.jpg")
SaveJpg ==
    /\ pc = "plotted"
    /\ files' = Append(files, ExportNames(FigBase)[1])
    /\ pc' = "jpg"
    /\ phases' = Enter(phases, "export")
    /\ UNCHANGED <<script, file, df, age_b2k, obl, prec_index, extrema,
                   fig, error, chart>>

\* savefig(f"{out_base}.svg")
SaveSvg ==
    /\ pc = "jpg"
    /\ files' = Append(files, ExportNames(FigBase)[2])
    /\ pc' = "svg"
    /\ phases' = Enter(phases, "export")
    /\ UNCHANGED <<script, file, df, age_b2k, obl, prec_index, extrema,
                   fig, error, chart>>

\* plt.close(fig); the run ends after the last figure
Close ==
    /\ pc = "svg"
    /\ fig' = NoFig
    /\ pc' = IF script = "correlation" /\ chart < Len(Charts)
             THEN "closed" ELSE "done"
    /\ phases' = Enter(phases, "export")
    /\ UNCHANGED <<script, file, df, age_b2k, obl, prec_index, extrema,
                   files, error, chart>>

Next ==
    \/ Load
    \/ InsCheckColumns
    \/ InsToNumeric
    \/ InsTransform
    \/ InsPlot
    \/ CorrToNumeric
    \/ CorrTransform
    \/ CorrScatterPlot
    \/ SaveJpg
    \/ SaveSvg
    \/ Close

Spec == Init /\ [][Next]_vars

\* The interpreter runs a script statement after statement to its end.
FairSpec == Spec /\ WF_vars(Next)

----------------------------------------------------------------------------
(* Vocabulary of the properties *)

Done == pc \in {"done", "error"}

PostTransform == pc \in {"transformed", "plotted", "jpg", "svg", "closed", "done"}

FigOpen == pc \in {"plotted", "jpg", "svg"}

Labels(frame) == {frame[i]["index"] : i \in DOMAIN frame}

\* The cell of column c in the file's row labelled l.
InputCell(l, c) == file.rows[l + 1][c]

IsNumber(v) == v # NaN /\ v # Text

IsPrefix(s, t) == Len(s) <= Len(t) /\ \A i \in DOMAIN s : s[i] = t[i]

PhaseRank(p) ==
    CASE p = "read" -> 1 [] p = "transform" -> 2 [] p = "plot" -> 3 [] OTHER -> 4

----------------------------------------------------------------------------
(* C1 *)

\* C1: in both scripts, when a required column (Age, ECC, OBL, OMEGA, EXI)
\* is absent from the loaded table the run ends by raising an error before
\* anything is drawn or exported: no figure is ever open and no file is ever
\* written, the run never gets past the column check / numeric conversion,
\* and it cannot stop anywhere but in the error.  The insolation script's
\* error is its ValueError naming exactly the absent columns; the correlation
\* script's is the KeyError of the first absent column.
C1_MissingColumnRaises ==
    (needed \ file.columns # {}) =>
        /\ files = <<>>
        /\ fig = NoFig
        /\ pc \in {"start", "loaded", "error"}
        /\ pc # "error" => ENABLED Next
        /\ pc = "error" =>
              IF script = "insolation"
              THEN error = [kind |-> "ValueError",
                            missing |-> needed \ file.columns]
              ELSE /\ error.kind = "KeyError"
                   /\ error.missing \subseteq needed \ file.columns
                   /\ Cardinality(error.missing) = 1

C1_Witness ==
    /\ script = "correlation"
    /\ pc = "error"
    /\ error.kind = "KeyError"
    /\ col_obl \notin file.columns
    /\ Len(file.rows) > 0
    /\ files = <<>>

----------------------------------------------------------------------------
(* C2 *)

ExpectedFiles ==
    IF script = "insolation"
    THEN << <<"insolation_vs_age_orbital_extrema", "jpg">>,
            <<"insolation_vs_age_orbital_extrema", "svg">> >>
    ELSE << <<"corr_insolation_vs_ecc", "jpg">>,
            <<"corr_insolation_vs_ecc", "svg">>,
            <<"corr_insolation_vs_obliquity", "jpg">>,
            <<"corr_insolation_vs_obliquity", "svg">>,
            <<"corr_insolation_vs_precession_index", "jpg">>,
            <<"corr_insolation_vs_precession_index", "svg">> >>

ExpectedPhases ==
    IF script = "insolation"
    THEN <<"read", "transform", "plot", "export">>
    ELSE <<"read", "transform", "plot", "export", "plot", "export",
           "plot", "export">>

\* Each chart is exported once as .jpg and then once as .svg under the same
\* base name before its figure is closed; 2 files (insolation) or 6 files in
\* the order eccentricity, obliquity, precession index (correlation).
C2_Exports ==
    /\ IsPrefix(files, ExpectedFiles)
    /\ (fig # NoFig) <=> FigOpen
    /\ pc = "plotted" => Len(files) % 2 = 0
    /\ pc = "jpg" => Len(files) % 2 = 1 /\ files[Len(files)][2] = "jpg"
    /\ pc = "svg" =>
          /\ Len(files) % 2 = 0
          /\ files[Len(files)] = <<files[Len(files) - 1][1], "svg">>
    /\ pc \in {"closed", "done"} => Len(files) % 2 = 0 /\ Len(files) >= 2
    /\ pc = "done" => files = ExpectedFiles
    /\ pc \in {"start", "loaded", "checked", "numeric", "transformed", "error"}
          => files = <<>>

\* A run with valid input (all required columns present) never raises.
C2_NeverRaises == (needed \subseteq file.columns) => pc # "error"

\* C2 as stated (its safety part): the exports as above, no error on valid
\* input, and the four phases read, transform, plot, export entered in that
\* order in both scripts, no step of an earlier phase after a later phase has
\* begun.
C2_Original ==
    /\ C2_Exports
    /\ C2_NeverRaises
    /\ \A i, j \in DOMAIN phases :
          i < j => PhaseRank(phases[i]) <= PhaseRank(phases[j])

C2_AmendedInv ==
    /\ C2_Exports
    /\ C2_NeverRaises
    /\ IsPrefix(phases, ExpectedPhases)
    /\ pc = "done" => phases = ExpectedPhases

\* C2 amended: every run terminates, with valid input in "done" after the
\* exports above; no read or transform step runs once plotting has begun;
\* the insolation script goes through read, transform, plot, export once,
\* and the correlation script draws and exports its three charts one after
\* the other, so that the plot step of the next chart follows the export of
\* the previous one.
C2_Amended == []C2_AmendedInv /\ <>Done

C2_Witness ==
    /\ script = "correlation"
    /\ pc = "done"
    /\ Len(files) = 6
    /\ Len(df) > 0
    /\ phases = ExpectedPhases

----------------------------------------------------------------------------
(* C3 *)

\* Age * 1000 + 50 for an Age cell a (a / TicksPerKa ka BP).
RefAgeYr(a) == (1000 * a) \div TicksPerKa + 50

RefInWindow(l) ==
    /\ IsNumber(InputCell(l, "Age"))
    /\ 128000 <= RefAgeYr(InputCell(l, "Age"))
    /\ RefAgeYr(InputCell(l, "Age")) <= 220000

RefComplete(l) == \A c \in {"EXI", "ECC", "OBL", "OMEGA"} : IsNumber(InputCell(l, c))

C3_Conversion ==
    /\ \A i \in DOMAIN df :
          /\ df[i]["Age_yr_b2k"] = RefAgeYr(InputCell(df[i]["index"], "Age"))
          /\ age_b2k[i] = df[i]["Age_yr_b2k"]
    /\ \A i, j \in DOMAIN df : i < j => df[i]["Age_yr_b2k"] <= df[j]["Age_yr_b2k"]
    /\ Cardinality(Labels(df)) = Len(df)
    /\ FigOpen =>
          /\ Len(fig.line) = Len(df)
          /\ \A i \in DOMAIN fig.line :
                /\ fig.line[i] = <<InputCell(df[i]["index"], "EXI"),
                                   df[i]["Age_yr_b2k"]>>
                /\ fig.ylim[2] <= fig.line[i][2]
                /\ fig.line[i][2] <= fig.ylim[1]
          /\ fig.ylim = <<220000, 128000>>

\* C3 as stated: the plotted series is exactly the input rows whose converted
\* age lies in [128000, 220000], in non-decreasing age order, inside the y
\* axis limits.
C3_Original ==
    (script = "insolation" /\ PostTransform) =>
        /\ C3_Conversion
        /\ Labels(df) = {l \in 0 .. Len(file.rows) - 1 : RefInWindow(l)}

\* C3 amended: the plotted series is exactly the input rows whose converted
\* age lies in [128000, 220000] and that have no missing value in EXI, ECC,
\* OBL or OMEGA, in non-decreasing age order, inside the y axis limits.
C3_Amended ==
    (script = "insolation" /\ PostTransform) =>
        /\ C3_Conversion
        /\ Labels(df) = {l \in 0 .. Len(file.rows) - 1 :
                            RefInWindow(l) /\ RefComplete(l)}

C3_Witness ==
    /\ script = "insolation"
    /\ pc = "plotted"
    /\ Len(file.rows) = 2
    /\ Len(df) = 2
    /\ df[1]["Age_yr_b2k"] = 128000
    /\ df[2]["Age_yr_b2k"] = 220000
    /\ df[1]["index"] = 1

\* A row just outside the window and a row with a missing value are left out.
C3_WitnessDropped ==
    /\ script = "insolation"
    /\ pc = "plotted"
    /\ Len(df) = 0
    /\ Len(file.rows) = 2
    /\ RefAgeYr(InputCell(0, "Age")) = 220050
    /\ RefInWindow(1) /\ ~RefComplete(1)

----------------------------------------------------------------------------
(* C4 *)

RefClip(j, n) == IF j < 0 THEN 0 ELSE IF j >= n THEN n - 1 ELSE j

\* The positions strictly greater than every neighbour at distance 1..order.
RefMaxima(s, order) ==
    {i \in 0 .. Len(s) - 1 :
        \A k \in 1 .. order :
            /\ s[i + 1] > s[RefClip(i - k, Len(s)) + 1]
            /\ s[i + 1] > s[RefClip(i + k, Len(s)) + 1]}

RefMinima(s, order) ==
    {i \in 0 .. Len(s) - 1 :
        \A k \in 1 .. order :
            /\ s[i + 1] < s[RefClip(i - k, Len(s)) + 1]
            /\ s[i + 1] < s[RefClip(i + k, Len(s)) + 1]}

\* A position with an equal value within distance order of it.
OnPlateau(s, i, order) ==
    \E j \in 0 .. Len(s) - 1 : j # i /\ j - i <= order /\ i - j <= order
                                /\ s[j + 1] = s[i + 1]

\* ECC * sin(OMEGA) of the plotted rows, from the file's cells.
RefPrec(frame) ==
    [i \in DOMAIN frame |->
        InputCell(frame[i]["index"], "ECC")
        * (CASE InputCell(frame[i]["index"], "OMEGA") = 90 -> 1
             [] InputCell(frame[i]["index"], "OMEGA") = 270 -> -1
             [] OTHER -> 0)]

\* C4: the maxima (minima) the insolation script reports for a series are
\* exactly the positions strictly greater (less) than the values at
\* clip(i-k) and clip(i+k) for every k in 1..3; no position with an equal
\* value within that distance is reported; and the three series are ECC,
\* the scaled OBL and the precession index ECC*sin(OMEGA) of the sorted
\* table, not its insolation.
C4_Extrema ==
    (script = "insolation" /\ PostTransform) =>
        LET ecc == Column(df, "ECC")
            prec == RefPrec(df)
        IN  /\ prec_index = prec
            /\ extrema.ecc_max = RefMaxima(ecc, 3)
            /\ extrema.ecc_min = RefMinima(ecc, 3)
            /\ extrema.obl_max = RefMaxima(obl, 3)
            /\ extrema.obl_min = RefMinima(obl, 3)
            /\ extrema.prec_max = RefMaxima(prec, 3)
            /\ extrema.prec_min = RefMinima(prec, 3)
            /\ \A i \in extrema.ecc_max \cup extrema.ecc_min : ~OnPlateau(ecc, i, 3)
            /\ \A i \in extrema.obl_max \cup extrema.obl_min : ~OnPlateau(obl, i, 3)
            /\ \A i \in extrema.prec_max \cup extrema.prec_min : ~OnPlateau(prec, i, 3)

\* Position 1 tops its neighbours up to distance 2 but equals the value at
\* distance 3, so it is no maximum; position 2 is a minimum; the insolation
\* of the same rows has no extremum at all.
C4_Witness ==
    /\ script = "insolation"
    /\ pc = "transformed"
    /\ Len(df) = 5
    /\ 1 \in RefMaxima(Column(df, "ECC"), 2)
    /\ 1 \notin extrema.ecc_max
    /\ extrema.ecc_min = {2}
    /\ RefMaxima(Column(df, "EXI"), 3) = {}
    /\ RefMinima(Column(df, "EXI"), 3) = {}

----------------------------------------------------------------------------
(* C5 *)

\* The number of members of idx below i.
RankIn(idx, i) == Cardinality({j \in idx : j < i})

\* C5: in the insolation script every index an extremum search returned is a
\* position 0..n-1 of the filtered, age-sorted table, and its marker is the
\* point (EXI, Age_yr_b2k) of the row at that position of the sorted table,
\* which is the point of the plotted line at that position.
C5_MarkersOnLine ==
    (script = "insolation" /\ FigOpen) =>
        \A kind \in DOMAIN extrema :
            /\ extrema[kind] \subseteq 0 .. Len(df) - 1
            /\ Len(fig.markers[kind]) = Cardinality(extrema[kind])
            /\ \A i \in extrema[kind] :
                  /\ fig.markers[kind][RankIn(extrema[kind], i) + 1]
                        = <<df[i + 1]["EXI"], df[i + 1]["Age_yr_b2k"]>>
                  /\ fig.markers[kind][RankIn(extrema[kind], i) + 1]
                        = fig.line[i + 1]

\* A marker at a position whose row carries another label, while the row
\* carrying that label is another point of the line.
C5_Witness ==
    /\ script = "insolation"
    /\ pc = "plotted"
    /\ \E i \in extrema.ecc_max :
          /\ df[i + 1]["index"] # i
          /\ \E k \in DOMAIN df :
                /\ df[k]["index"] = i
                /\ fig.line[k] # fig.line[i + 1]

----------------------------------------------------------------------------
(* C6 *)

\* The row labelled l converted to b2k first and then held against
\* [115, 250] ka.
RefCorrSelected(l) ==
    /\ IsNumber(InputCell(l, "Age"))
    /\ 115 * TicksPerKa <= InputCell(l, "Age") + SHIFT_KA
    /\ InputCell(l, "Age") + SHIFT_KA <= 250 * TicksPerKa

C6_WitnessOutside ==
    /\ script = "correlation"
    /\ pc = "plotted"
    /\ Len(file.rows) = 2
    /\ Len(df) = 0
    /\ InputCell(0, "Age") + SHIFT_KA = 115 * TicksPerKa - 1
    /\ InputCell(1, "Age") + SHIFT_KA = 250 * TicksPerKa + 1

----------------------------------------------------------------------------
(* C7 *)

FiveColumns == {"Age", "EXI", "ECC", "OBL", "OMEGA"}

\* C7: in the insolation script a cell of the five required columns that is
\* not a number never raises: with all columns present the run raises
\* nothing, and no row with such a cell is among the plotted rows, the line
\* or the series the extrema are taken from.
C7_CoerceAndDrop ==
    (script = "insolation" /\ needed \subseteq file.columns) =>
        /\ error = NoError
        /\ pc # "error"
        /\ PostTransform =>
              /\ \A i \in DOMAIN df :
                    \A c \in FiveColumns :
                        /\ IsNumber(df[i][c])
                        /\ IsNumber(InputCell(df[i]["index"], c))
              /\ Len(obl) = Len(df) /\ Len(prec_index) = Len(df)
              /\ \A i \in DOMAIN df : IsNumber(obl[i]) /\ IsNumber(prec_index[i])
              /\ FigOpen => Len(fig.line) = Len(df)

\* A run that ended well on a file with an unparsable OMEGA cell in one row
\* and a complete second row.
C7_Witness ==
    /\ script = "insolation"
    /\ pc = "done"
    /\ error = NoError
    /\ Len(file.rows) = 2
    /\ InputCell(0, "OMEGA") = Text
    /\ Labels(df) = {1}
    /\ Len(files) = 2

----------------------------------------------------------------------------
(* C8 *)

\* C8: in both scripts the obliquity is rescaled as a whole: when the
\* largest obliquity of the selected rows exceeds 100 every value is divided
\* by 1000, otherwise every value is left as it is (obl holds thousandths of
\* a degree: v / 1000 degrees are v thousandths, v degrees are v * 1000);
\* the order of any two values is that of the raw column, and the insolation
\* script's obliquity extrema are those of the raw column.
C8_ObliquityScaling ==
    PostTransform =>
        LET raw == Column(df, "OBL")
            big == \E i \in DOMAIN raw : raw[i] # NaN /\ raw[i] > 100
        IN  /\ Len(obl) = Len(raw)
            /\ \A i \in DOMAIN raw :
                  IF raw[i] = NaN THEN obl[i] = NaN
                  ELSE IF big THEN obl[i] = raw[i]
                  ELSE obl[i] = raw[i] * 1000
            /\ \A i, j \in DOMAIN raw :
                  (raw[i] # NaN /\ raw[j] # NaN) =>
                      ((raw[i] < raw[j]) <=> (obl[i] < obl[j]))
            /\ script = "insolation" =>
                  /\ extrema.obl_max = RefMaxima(raw, 3)
                  /\ extrema.obl_min = RefMinima(raw, 3)

\* A column holding values on both sides of 100, all divided.
C8_Witness ==
    /\ PostTransform
    /\ \E i, j \in DOMAIN df :
          /\ df[i]["OBL"] = 23 /\ obl[i] = 23
          /\ df[j]["OBL"] = 22340 /\ obl[j] = 22340

\* A column of degrees left as it is, with an obliquity maximum.
C8_WitnessUnscaled ==
    /\ script = "insolation"
    /\ PostTransform
    /\ \A i \in DOMAIN df : df[i]["OBL"] \in {23, 24} /\ obl[i] = 1000 * df[i]["OBL"]
    /\ extrema.obl_max # {}

====
